---------------------------- MODULE Spec2Model ----------------------------
(***************************************************************************)
(* A state-machine model of the LinkedIn job scraper                        *)
(* (src/scraper_final.py, src/app.py).                                      *)
(*                                                                         *)
(* The state is the module-level state of scraper_final (the LinkedInAuth  *)
(* instance, Config, HEADERS_LIST), the local variables of the functions    *)
(* that are on the call stack, and the program counter of each of them.     *)
(* The server is the environment: every outbound request draws its outcome  *)
(* from a bounded set of responses.                                         *)
(***************************************************************************)
EXTENDS Integers, Sequences, FiniteSets, TLC

VARIABLES
    entry,            \* the entry point that was started
    mpc,              \* position of the entry point (main, the API server, a direct call)
    env,              \* process environment: which variables are set
    config_data,      \* the file at file_path, as load_config_from_json finds it
    count,            \* the argument of the last add_random_headers call
    is_authenticated, \* LinkedInAuth.is_authenticated
    csrf_token,       \* LinkedInAuth.csrf_token
    session_cookies,  \* names of the cookies set in LinkedInAuth.session
    lpc,              \* position inside LinkedInAuth.login
    response,         \* login's local: the last response handed to verify_authentication
    verified,         \* the value verify_authentication returned for it
    loginResult,      \* what login() returned: "none" | "True" | "False" | "exit"
    authLog,          \* history: the authentication requests issued, in order
    Config,           \* the Config class attributes
    HEADERS_LIST,     \* Config.HEADERS_LIST
    handler,          \* the orchestrator that is running: "main" | "default" | "custom" | "none"
    request,          \* scrape_jobs_custom's JobRequest
    qi,               \* index of search_config in the list of searches
    job_info_list,    \* the candidates fetch_job_ids_from_url returned
    ji,               \* index of job_info in job_info_list
    unique_jobs,      \* the orchestrator's set of seen job ids
    all_job_data,     \* the aggregated job records
    overall_monitoring, \* main's per-search monitoring records
    total_unique,     \* main's total_unique
    easy_apply_count, \* main's easy_apply_count
    non_easy_apply_count, \* main's non_easy_apply_count
    original_max_pages, \* scrape_jobs_custom's original_max_pages
    ppc,              \* position inside fetch_job_ids_from_url
    search_url_config, \* fetch_job_ids_from_url's argument
    paginated_url,    \* fetch_job_ids_from_url's paginated_url
    page,             \* fetch_job_ids_from_url's page
    max_pages,        \* fetch_job_ids_from_url's max_pages
    all_jobs,         \* fetch_job_ids_from_url's all_jobs
    pagesRequested,   \* history: the page indices requested by the current call
    pageYields,       \* history: the candidates each fetched page of the current call added
    breakStatus,      \* history: the status of the answer on which the page loop broke (0: none)
    dpc,              \* position inside fetch_job_details
    job_info,         \* fetch_job_details' argument
    attempts,         \* fetch_job_details' attempts
    job_detail,       \* what fetch_job_details returned
    detailRequests,   \* history: outbound requests issued by the current call
    detailSleeps,     \* history: sleeps performed during the current call
    detailAnswers,    \* history: the statuses answered during the current call
    rpc,              \* position inside make_authenticated_request
    caller,           \* who called make_authenticated_request
    attempt,          \* make_authenticated_request's attempt
    ret,              \* what make_authenticated_request returned
    lastStatus,       \* history: the status of the last answer in the current call
    lastWait,         \* history: the duration of the last sleep since the last outbound request
    paced             \* history: a sleep happened since the last outbound request

authVars == <<is_authenticated, csrf_token, session_cookies, lpc, response,
              verified, loginResult, authLog>>

cfgVars == <<Config, HEADERS_LIST>>

callVars == <<config_data, count>>

summaryVars == <<total_unique, easy_apply_count, non_easy_apply_count>>

orchVars == <<handler, request, qi, job_info_list, ji, unique_jobs, all_job_data,
              overall_monitoring, summaryVars, original_max_pages>>

pageVars == <<ppc, search_url_config, paginated_url, page, max_pages, all_jobs,
              pagesRequested, pageYields, breakStatus>>

detailVars == <<dpc, job_info, attempts, job_detail, detailRequests, detailSleeps,
                detailAnswers>>

reqVars == <<rpc, caller, attempt, ret, lastStatus>>

vars == <<entry, mpc, env, callVars, authVars, cfgVars, orchVars, pageVars, detailVars,
          reqVars, lastWait, paced>>

Range(s) == {s[i] : i \in 1..Len(s)}

None == "None"

(***************************************************************************)
(* Bounds                                                                   *)
(***************************************************************************)
\* Whole runs: searches, pages per search, attempts per job.
RunSearches == 2
RunMaxPages == 1
RunMaxAttempts == 1

\* Direct calls: pages per search, attempts per job.
UnitMaxPages == 3
UnitMaxAttempts == 2

\* main() run to its end: searches, pages per search, attempts per job.
MainSearches == 1
MainMaxPages == 1
MainMaxAttempts == 1

\* Direct calls of add_random_headers: the largest count, the largest pool.
MaxCount == 2
MaxPool == 3

\* Configuration files lack at most this many of the required keys.
MaxMissing == 2

(***************************************************************************)
(* Responses of the authentication endpoints.                               *)
(*                                                                         *)
(* A URL is https://www.linkedin.com/ followed by the path segments and the *)
(* words of the query string; `kw in response.url` is modelled on those.    *)
(* A page is the set of its elements and the phrases its text contains.     *)
(***************************************************************************)
Url(p, q) == [path |-> p, query |-> q]

AuthUrls ==
    { Url(<<"feed">>, <<>>),
      Url(<<"mynetwork">>, <<>>),
      Url(<<"in", "me">>, <<>>),
      Url(<<"jobs">>, <<>>),
      Url(<<"login">>, <<>>),
      Url(<<"login">>, <<"session_redirect", "feed">>),
      Url(<<"checkpoint", "challenge">>, <<>>),
      Url(<<"checkpoint", "lg", "login-submit">>, <<>>),
      Url(<<"authwall">>, <<>>) }

El(t, c, a) == [tag |-> t, class |-> c, testid |-> a]

AuthElements ==
    { El("nav", "global-nav", None),
      El("div", "global-nav", None),
      El("div", "menu", "nav-user-menu"),
      El("div", "nav-user-menu", None),
      El("div", "feed-container", None),
      El("div", "authentication-outlet", None),
      El("form", "login__form", None) }

\* Pages carry at most one of the elements of interest.
AuthPages == {{}} \cup {{e} : e \in AuthElements}

AuthCookieNames == {"JSESSIONID", "li_at"}

AuthStatuses == {200, 401}

AuthPhrases == {"LinkedIn", "sign in"}

AuthResponses ==
    [ url : AuthUrls, status_code : AuthStatuses, cookies : SUBSET AuthCookieNames,
      elements : AuthPages, text : SUBSET AuthPhrases ]

\* The responses the authentication endpoints may give.  The direct test of
\* login() ranges over all of them; a whole run over those without markup.
AuthWorld ==
    IF entry = "test_auth"
    THEN AuthResponses
    ELSE {r \in AuthResponses : r.elements = {} /\ r.text = {}}

NoResponse == [ url |-> Url(<<>>, <<>>), status_code |-> 0, cookies |-> {},
                elements |-> {}, text |-> {} ]


\* `kw in response.url`
InUrl(kw, url) == kw \in Range(url.path) \cup Range(url.query)

\* `'linkedin.com/in/' in response.url`: the host directly followed by /in/
InUrlProfile(url) == Len(url.path) >= 2 /\ url.path[1] = "in"

\* `'linkedin.com/feed' in response.url`: the host directly followed by /feed
InUrlFeedHome(url) == Len(url.path) >= 1 /\ url.path[1] = "feed"

\* soup.select(selector) for the selectors of nav_indicators
Select(elements, selector) ==
    CASE selector = "nav.global-nav" ->
            {e \in elements : e.tag = "nav" /\ e.class = "global-nav"}
      [] selector = ".global-nav" -> {e \in elements : e.class = "global-nav"}
      [] selector = "[data-test-id=nav-user-menu]" ->
            {e \in elements : e.testid = "nav-user-menu"}
      [] selector = ".nav-user-menu" -> {e \in elements : e.class = "nav-user-menu"}
      [] selector = ".feed-container" -> {e \in elements : e.class = "feed-container"}
      [] selector = ".authentication-outlet" ->
            {e \in elements : e.class = "authentication-outlet"}
      [] OTHER -> {}

nav_indicators ==
    << "nav.global-nav", ".global-nav", "[data-test-id=nav-user-menu]",
       ".nav-user-menu", ".feed-container", ".authentication-outlet" >>

\* A mutation of verify_authentication: the session-cookie signal is dropped.
verify_authentication_no_cookie(r) ==
    IF InUrl("feed", r.url) \/ InUrl("mynetwork", r.url) \/ InUrlProfile(r.url)
    THEN TRUE
    ELSE IF \E i \in 1..Len(nav_indicators) :
                Select(r.elements, nav_indicators[i]) # {}
    THEN TRUE
    ELSE FALSE

\* LinkedInAuth.verify_authentication
verify_authentication(r) ==
    IF InUrl("feed", r.url) \/ InUrl("mynetwork", r.url) \/ InUrlProfile(r.url)
    THEN TRUE
    ELSE IF InUrlFeedHome(r.url)
    THEN TRUE
    ELSE IF "JSESSIONID" \in r.cookies \/ "li_at" \in r.cookies
    THEN TRUE
    ELSE IF \E i \in 1..Len(nav_indicators) :
                Select(r.elements, nav_indicators[i]) # {}
    THEN TRUE
    ELSE IF /\ r.status_code = 200
            /\ "LinkedIn" \in r.text
            /\ "sign in" \notin r.text
            /\ ~ \E kw \in {"login", "guest", "authwall", "signup"} : InUrl(kw, r.url)
    THEN TRUE
    ELSE FALSE

(***************************************************************************)
(* LinkedInAuth.login                                                       *)
(***************************************************************************)
\* A request that raised requests.RequestException instead of answering.
Raised == [ url |-> Url(<<>>, <<>>), status_code |-> -1, cookies |-> {},
            elements |-> {}, text |-> {} ]

\* The login page: its status, whether soup.find gives a loginCsrfParam input,
\* and what that input's .get('value') gives (None: the input carries no value
\* attribute).  (status -1: the request raised.)  A whole run sees one token
\* value.
LoginPages ==
    [ status_code : {200, 403, -1}, csrf_input : {FALSE}, value : {None} ]
      \cup [ status_code : {200, 403, -1}, csrf_input : {TRUE},
              value : IF entry = "test_auth" THEN {None, "csrfA", "csrfB"}
                      ELSE {"csrfA"} ]

\* An entry of authLog: the request, the token it carried, and what
\* verify_authentication said of its response ("none": not verified).
AuthReq(kind, tok, ok) == [req |-> kind, csrf |-> tok, verified |-> ok]

Verdict(r) == IF verify_authentication(r) THEN "True" ELSE "False"

\* A mutation of get_session_cookies: every cookie is taken as set.
AllSessionCookies == {"li_at", "JSESSIONID"}

\* LinkedInAuth.get_session_cookies: the cookies whose variable is set
get_session_cookies == env.cookies

notAuth == <<cfgVars, orchVars, pageVars, detailVars, reqVars>>

\* A mutation of CookieVerified: the success is not returned to login().
CookieVerifiedFallsThrough(ok) ==
    /\ is_authenticated' = (is_authenticated \/ ok)
    /\ lpc' = "credentials"
    /\ UNCHANGED loginResult

\* `if self.verify_authentication(response)` in login_with_cookies, and
\* `if self.login_with_cookies(): return True` in login()
CookieVerified(ok) ==
    IF ok
    THEN /\ is_authenticated' = TRUE
         /\ lpc' = "returned"
         /\ loginResult' = "True"
    ELSE /\ lpc' = "credentials"
         /\ UNCHANGED <<is_authenticated, loginResult>>

\* login_with_cookies, as called first by login()
login_with_cookies ==
    /\ lpc = "cookies"
    /\ IF "li_at" \notin get_session_cookies
       THEN /\ lpc' = "credentials"
            /\ UNCHANGED <<is_authenticated, session_cookies, response, verified,
                           loginResult, authLog, paced, lastWait>>
       ELSE /\ session_cookies' = session_cookies \cup get_session_cookies
            /\ paced' = FALSE
            /\ lastWait' = 0
            /\ \E o \in AuthWorld \cup {Raised} :
                 IF o = Raised
                 THEN /\ authLog' = Append(authLog, AuthReq("GET /feed/", csrf_token, "none"))
                      /\ lpc' = "credentials"
                      /\ UNCHANGED <<is_authenticated, response, verified, loginResult>>
                 ELSE /\ authLog' = Append(authLog,
                                           AuthReq("GET /feed/", csrf_token, Verdict(o)))
                      /\ response' = o
                      /\ verified' = verify_authentication(o)
                      /\ CookieVerified(verified')
    /\ UNCHANGED <<entry, callVars, mpc, env, csrf_token, notAuth>>

\* get_credentials, as called by login() once the cookie attempt returned False
get_credentials ==
    /\ lpc = "credentials"
    /\ IF env.credentials
       THEN lpc' = "login_page" /\ UNCHANGED <<loginResult, mpc>>
       ELSE lpc' = "exited" /\ loginResult' = "exit" /\ mpc' = "exit1"
    /\ UNCHANGED <<entry, callVars, env, is_authenticated, csrf_token, session_cookies,
                   response, verified, authLog, notAuth, lastWait, paced>>

\* login(), step 1: fetch the login page and extract the CSRF token
login_fetch_page ==
    /\ lpc = "login_page"
    /\ authLog' = Append(authLog, AuthReq("GET /login", None, "none"))
    /\ \E o \in LoginPages :
         IF o.status_code # 200 \/ ~o.csrf_input
         THEN /\ lpc' = "returned"
              /\ loginResult' = "False"
              /\ paced' = FALSE
              /\ lastWait' = 0
              /\ UNCHANGED csrf_token
         ELSE /\ csrf_token' = o.value
              /\ lpc' = "submit"
              /\ \E w \in 2..4 : lastWait' = w
              /\ paced' = TRUE
              /\ UNCHANGED loginResult
    /\ UNCHANGED <<entry, callVars, mpc, env, is_authenticated, session_cookies,
                   response, verified, notAuth>>

\* A mutation of SubmitVerified: the session is marked authenticated
\* whatever the verification said.
SubmitVerifiedAlways(ok) ==
    /\ is_authenticated' = TRUE
    /\ loginResult' = IF ok THEN "True" ELSE "False"

\* `if self.verify_authentication(response)` after the credential POST
SubmitVerified(ok) ==
    IF ok
    THEN is_authenticated' = TRUE /\ loginResult' = "True"
    ELSE loginResult' = "False" /\ UNCHANGED is_authenticated

\* login(), step 2: submit the credentials and verify the response
login_submit ==
    /\ lpc = "submit"
    /\ paced' = FALSE
    /\ lastWait' = 0
    /\ lpc' = "returned"
    /\ \E o \in AuthWorld \cup {Raised} :
         IF o = Raised
         THEN /\ authLog' = Append(authLog,
                      AuthReq("POST /checkpoint/lg/login-submit", csrf_token, "none"))
              /\ loginResult' = "False"
              /\ UNCHANGED <<is_authenticated, response, verified>>
         ELSE /\ authLog' = Append(authLog,
                      AuthReq("POST /checkpoint/lg/login-submit", csrf_token, Verdict(o)))
              /\ response' = o
              /\ verified' = verify_authentication(o)
              /\ SubmitVerified(verified')
    /\ UNCHANGED <<entry, callVars, mpc, env, csrf_token, session_cookies, notAuth>>

\* The locals of login() are gone once its caller has the result.
LoginConsumed ==
    /\ lpc' = "done"
    /\ response' = NoResponse
    /\ verified' = FALSE
    /\ UNCHANGED <<is_authenticated, csrf_token, session_cookies, loginResult, authLog>>

\* test_authentication: auth.login() on a fresh LinkedInAuth
test_authentication_call ==
    /\ entry = "test_auth" /\ mpc = "start"
    /\ mpc' = "login"
    /\ lpc' = "cookies"
    /\ UNCHANGED <<entry, callVars, env, is_authenticated, csrf_token, session_cookies,
                   response, verified, loginResult, authLog, notAuth, lastWait, paced>>

test_authentication_return ==
    /\ entry = "test_auth" /\ mpc = "login" /\ lpc = "returned"
    /\ mpc' = "done"
    /\ LoginConsumed
    /\ UNCHANGED <<entry, callVars, env, notAuth, lastWait, paced>>

(***************************************************************************)
(* Listing pages, detail pages and the responses that carry them.           *)
(***************************************************************************)
\* An element carrying data-entity-urn: the urn's type and last component,
\* and the phrases its markup contains.
Card(kind, id, html) == [kind |-> kind, id |-> id, html |-> html]

\* An <a href="/jobs/view/<id>">, with the markup of the enclosing job card
\* (has_parent is FALSE when find_parent finds none).
Link(id, has_parent, html) == [id |-> id, has_parent |-> has_parent, html |-> html]

Listing(cards, links) == [job_cards |-> cards, job_links |-> links]

\* A detail page: the elements select_one can find, as selector |-> text.
NoDetail == [sel \in {} |-> ""]

Resp(status, listing, detail) ==
    [status_code |-> status, listing |-> listing, detail |-> detail]

\* make_authenticated_request returned None
NoneResp == Resp(0, Listing(<<>>, <<>>), NoDetail)

\* requests.get raised requests.RequestException
RaisedResp == Resp(-1, Listing(<<>>, <<>>), NoDetail)

\* `if not response`: None, or a Response that is not ok
Falsy(r) == r = NoneResp \/ r.status_code >= 400

IsDigit(id) == id \in {"101", "102"}

easy_apply_indicators ==
    { "easy apply", "easy-apply", "apply-button--primary",
      "jobs-apply-button--top-card", "artdeco-button--primary" }

\* detect_easy_apply on an element whose markup (lower-cased) contains `html`
detect_easy_apply(html) ==
    IF \E indicator \in easy_apply_indicators : indicator \in html
    THEN TRUE
    ELSE FALSE

\* get_application_type
get_application_type(html) ==
    IF detect_easy_apply(html) THEN "Easy Apply"
    ELSE IF "be an early applicant" \in html THEN "Early Applicant"
    ELSE IF "apply on company website" \in html THEN "Company Website"
    ELSE IF "apply externally" \in html THEN "External"
    ELSE "Standard"

Candidate(id, html) ==
    [job_id |-> id, has_easy_apply |-> detect_easy_apply(html),
     application_type |-> get_application_type(html)]

RECURSIVE CardJobs(_)
\* the loop over job_cards: the candidates of the data-entity-urn shape
CardJobs(cards) ==
    IF cards = <<>> THEN <<>>
    ELSE LET card == Head(cards)
             rest == CardJobs(Tail(cards))
         IN  IF card.kind = "jobPosting" /\ IsDigit(card.id)
             THEN <<Candidate(card.id, card.html)>> \o rest
             ELSE rest

RECURSIVE LinkJobs(_)
\* the loop over job_links: the candidates of the anchor-link shape
LinkJobs(links) ==
    IF links = <<>> THEN <<>>
    ELSE LET link == Head(links)
             rest == LinkJobs(Tail(links))
         IN  IF link.has_parent
             THEN <<Candidate(link.id, link.html)>> \o rest
             ELSE rest

\* The candidates one listing page adds to all_jobs.
PageJobs(listing) ==
    IF listing.job_cards = <<>>
    THEN LinkJobs(listing.job_links)
    ELSE CardJobs(listing.job_cards)

\* `if not job_cards and not job_links: break`
PageEnds(listing) == listing.job_cards = <<>> /\ listing.job_links = <<>>

(***************************************************************************)
(* The server's answers to listing and detail requests.                     *)
(***************************************************************************)
EasyHtml == {"easy apply"}
PlainHtml == {"apply on company website"}

\* Listing pages served during a whole run.
RunListings ==
    { Listing(<<>>, <<>>),
      Listing(<<Card("jobPosting", "101", EasyHtml)>>, <<>>),
      Listing(<<Card("jobPosting", "102", PlainHtml)>>, <<>>) }

\* Listing pages served to a direct call of fetch_job_ids_from_url.
UnitListings ==
    RunListings \cup
    { Listing(<<Card("company", "77", {})>>, <<>>),
      Listing(<<Card("jobPosting", "x9", {})>>, <<>>),
      Listing(<<>>, <<Link("101", TRUE, EasyHtml)>>),
      Listing(<<>>, <<Link("102", FALSE, {})>>),
      Listing(<<Card("company", "77", {})>>, <<Link("102", TRUE, PlainHtml)>>) }

\* Error statuses served: the API server meets one kind, main() and a direct
\* call both.
ErrorStatuses == IF entry = "app" THEN {500} ELSE {429, 500}

ListingWorld ==
    {RaisedResp} \cup {Resp(st, Listing(<<>>, <<>>), NoDetail) : st \in ErrorStatuses}
    \cup {Resp(200, l, NoDetail) :
            l \in IF entry \in {"main", "app"} THEN RunListings ELSE UnitListings}

\* Detail pages served to a direct call of fetch_job_details: every field
\* under its primary selector; the primary title and description elements
\* empty, with text under a fallback; fallback selectors only; a description
\* longer than the 50 characters kept before a keyword.
UnitDetailPages ==
    { (".job-details-jobs-unified-top-card__company-name a" :> "Acme")
        @@ (".job-details-jobs-unified-top-card__job-title h1" :> "Engineer")
        @@ (".job-details-jobs-unified-top-card__primary-description-container .tvm__text"
              :> "2 hours ago")
        @@ (".job-details-jobs-unified-top-card__primary-description-container .tvm__text--low-emphasis"
              :> "12 applicants")
        @@ (".job-details-jobs-unified-top-card__primary-description-container .tvm__text--neutral"
              :> "Berlin")
        @@ (".jobs-description-content__text" :> "Join us. Senior Level, 5 years."),
      (".job-details-jobs-unified-top-card__job-title h1" :> "")
        @@ (".topcard__title" :> "Engineer")
        @@ (".jobs-description-content__text" :> "")
        @@ (".jobs-box__html-content" :> "entry role"),
      (".topcard__org-name-link" :> "Acme")
        @@ (".topcard__title" :> "Engineer")
        @@ (".description__text" :> "Great team"),
      (".topcard__title" :> "Engineer")
        @@ (".description__text" :>
              "Senior engineer wanted for our platform team in Berlin: at least five years of practice.") }

DetailPages ==
    IF entry \in {"main", "app"} THEN {NoDetail} ELSE {NoDetail} \cup UnitDetailPages

DetailWorld ==
    {RaisedResp}
    \cup {Resp(st, Listing(<<>>, <<>>), NoDetail) : st \in ErrorStatuses \cup {404}}
    \cup {Resp(200, Listing(<<>>, <<>>), d) : d \in DetailPages}

\* A mutation of Uniform: the range starts at zero.
UniformFromZero(a, b) == {0, b}

\* random.uniform(a, b), sampled at its end points
Uniform(a, b) == {a, b}

RECURSIVE Pow2(_)
Pow2(n) == IF n = 0 THEN 1 ELSE 2 * Pow2(n - 1)

(***************************************************************************)
(* make_authenticated_request                                               *)
(***************************************************************************)
max_retries == 3

\* A mutation of RateLimitWait: the same wait at every attempt.
FlatRateLimitWait(a) == 10

\* `wait_time = 10 * (2 ** attempt)`
RateLimitWait(a) == 10 * Pow2(a)

\* A mutation of NotOk: only server errors are retried.
NotOkServerErrorOnly(status_code) == status_code >= 500

\* `if response.status_code != 200`
NotOk(status_code) == status_code # 200

\* The call: `response = make_authenticated_request(url)`
CallRequest(who) ==
    /\ rpc' = "loop"
    /\ caller' = who
    /\ attempt' = 0
    /\ ret' = NoneResp
    /\ lastStatus' = 0

\* A mutation of NextAttempt: one iteration more than range(max_retries).
NextAttemptOneMore ==
    /\ attempt' = attempt + 1
    /\ ret' = NoneResp
    /\ rpc' = IF attempt + 1 <= max_retries THEN "loop" ELSE "returned"

\* `continue`, or the end of an iteration without return: the next attempt,
\* or `return None` after the last one
NextAttempt ==
    /\ attempt' = attempt + 1
    /\ ret' = NoneResp
    /\ rpc' = IF attempt + 1 < max_retries THEN "loop" ELSE "returned"

\* One iteration of the retry loop: one outbound request and its handling.
make_authenticated_request ==
    /\ rpc = "loop"
    /\ detailRequests' = IF caller = "detail" THEN detailRequests + 1 ELSE detailRequests
    /\ pagesRequested' = IF caller = "page" THEN Append(pagesRequested, page)
                         ELSE pagesRequested
    /\ \E o \in IF caller = "detail" THEN DetailWorld ELSE ListingWorld :
         /\ lastStatus' = o.status_code
         /\ detailAnswers' = IF caller = "detail"
                              THEN detailAnswers \cup {o.status_code}
                              ELSE detailAnswers
         /\ IF o = RaisedResp
            THEN /\ NextAttempt
                 /\ IF attempt < max_retries - 1
                    THEN /\ \E w \in Uniform(5, 10) : lastWait' = w
                         /\ paced' = TRUE
                         /\ detailSleeps' = IF caller = "detail" THEN detailSleeps + 1
                                            ELSE detailSleeps
                    ELSE /\ paced' = FALSE
                         /\ lastWait' = 0
                         /\ UNCHANGED detailSleeps
            ELSE IF o.status_code = 429
            THEN /\ lastWait' = RateLimitWait(attempt)
                 /\ paced' = TRUE
                 /\ detailSleeps' = IF caller = "detail" THEN detailSleeps + 1
                                    ELSE detailSleeps
                 /\ NextAttempt
            ELSE IF NotOk(o.status_code)
            THEN /\ lastWait' = 5
                 /\ paced' = TRUE
                 /\ detailSleeps' = IF caller = "detail" THEN detailSleeps + 1
                                    ELSE detailSleeps
                 /\ NextAttempt
            ELSE /\ ret' = o
                 /\ rpc' = "returned"
                 /\ paced' = FALSE
                 /\ lastWait' = 0
                 /\ UNCHANGED <<attempt, detailSleeps>>
    /\ UNCHANGED <<entry, callVars, mpc, env, authVars, cfgVars, orchVars, caller,
                   ppc, search_url_config, paginated_url, page, max_pages, all_jobs,
                   pageYields, breakStatus,
                   dpc, job_info, attempts, job_detail>>

\* The locals of make_authenticated_request are gone once its caller has the result.
RequestConsumed ==
    /\ rpc' = "idle"
    /\ caller' = "none"
    /\ attempt' = 0
    /\ ret' = NoneResp
    /\ lastStatus' = 0

(***************************************************************************)
(* load_config_from_json                                                    *)
(***************************************************************************)
required_keys ==
    { "BASE_LIST_URL", "BASE_JOB_URL", "MAX_PAGES_PER_SEARCH", "FILTER_EASY_APPLY",
      "SEARCH_URLS", "REQUEST_TIMEOUT", "PAGE_DELAY", "CSV_FILENAME",
      "INITIAL_HEADERS_COUNT", "RANDOM_HEADERS_COUNT", "MAX_ATTEMPTS",
      "RETRY_WAIT_429", "RETRY_WAIT_NON_429", "OUTPUT_FIELDS" }

\* A file holding a JSON object, no file, a file json.load cannot decode
JsonFile(data) == [exists |-> TRUE, valid |-> TRUE, data |-> data]
NoFile == [exists |-> FALSE, valid |-> FALSE, data |-> <<>>]
NotJson == [exists |-> TRUE, valid |-> FALSE, data |-> <<>>]

\* `missing_keys = [key for key in required_keys if key not in config_data]`
missing_keys(data) == {key \in required_keys : key \notin DOMAIN data}

\* A mutation of UpdateConfig: OUTPUT_FIELDS is not assigned.
UpdateConfigButLast(cfg, data) ==
    [k \in DOMAIN cfg |-> IF k \in required_keys \ {"OUTPUT_FIELDS"} THEN data[k]
                          ELSE cfg[k]]

\* `Config.BASE_LIST_URL = config_data["BASE_LIST_URL"]` ... `Config.OUTPUT_FIELDS = ...`
UpdateConfig(cfg, data) ==
    [k \in DOMAIN cfg |-> IF k \in required_keys THEN data[k] ELSE cfg[k]]

load_config_from_json ==
    /\ entry = "load_config_from_json" /\ mpc = "start"
    /\ IF ~config_data.exists
       THEN mpc' = "exit1" /\ UNCHANGED Config
       ELSE IF ~config_data.valid
       THEN mpc' = "exit1" /\ UNCHANGED Config
       ELSE IF missing_keys(config_data.data) # {}
       THEN mpc' = "exit1" /\ UNCHANGED Config
       ELSE mpc' = "loaded" /\ Config' = UpdateConfig(Config, config_data.data)
    /\ UNCHANGED <<entry, callVars, env, authVars, HEADERS_LIST, orchVars,
                   pageVars, detailVars, reqVars, lastWait, paced>>

(***************************************************************************)
(* Header pool                                                              *)
(***************************************************************************)
\* The identities generate_random_header can produce (one family in a whole run).
Identities == IF entry \in {"main", "app"} THEN {"Chrome"} ELSE {"Chrome", "Firefox"}

\* A mutation of add_random_headers: the pool is made of the new identities.
ReplaceRandomHeaders(n) ==
    /\ count' = n
    /\ \E hs \in [1..n -> Identities] : HEADERS_LIST' = hs

\* add_random_headers(count)
add_random_headers(n) ==
    /\ count' = n
    /\ \E hs \in [1..n -> Identities] : HEADERS_LIST' = HEADERS_LIST \o hs

(***************************************************************************)
(* fetch_job_ids_from_url                                                   *)
(***************************************************************************)
\* A query string is the sequence of its name=value pairs; percent-encoding,
\* which parse_qs undoes and urlencode redoes, is left out.
Param(n, v) == [name |-> n, value |-> v]

\* str(n) of a natural number
Digit(d) ==
    CASE d = 0 -> "0" [] d = 1 -> "1" [] d = 2 -> "2" [] d = 3 -> "3" [] d = 4 -> "4"
      [] d = 5 -> "5" [] d = 6 -> "6" [] d = 7 -> "7" [] d = 8 -> "8" [] d = 9 -> "9"

RECURSIVE Str(_)
Str(n) == IF n < 10 THEN Digit(n) ELSE Str(n \div 10) \o Digit(n % 10)

\* One pair read by parse_qs into the dict built so far (a sequence of
\* name |-> values entries in insertion order): a pair with a blank value
\* is dropped (keep_blank_values is False), a repeated name extends its list.
ParsePair(dict, p) ==
    IF p.value = "" THEN dict
    ELSE IF \E i \in 1..Len(dict) : dict[i].name = p.name
    THEN [i \in 1..Len(dict) |->
             IF dict[i].name = p.name
             THEN [dict[i] EXCEPT !.values = Append(@, p.value)]
             ELSE dict[i]]
    ELSE Append(dict, [name |-> p.name, values |-> <<p.value>>])

RECURSIVE parse_qs(_)
parse_qs(query) ==
    IF query = <<>> THEN <<>>
    ELSE ParsePair(parse_qs(SubSeq(query, 1, Len(query) - 1)), query[Len(query)])

\* `query_params[name] = values`
SetItem(dict, name, values) ==
    IF \E i \in 1..Len(dict) : dict[i].name = name
    THEN [i \in 1..Len(dict) |->
             IF dict[i].name = name THEN [dict[i] EXCEPT !.values = values]
             ELSE dict[i]]
    ELSE Append(dict, [name |-> name, values |-> values])

RECURSIVE urlencode(_)
\* urlencode(query_params, doseq=True)
urlencode(dict) ==
    IF dict = <<>> THEN <<>>
    ELSE [i \in 1..Len(dict[1].values) |-> Param(dict[1].name, dict[1].values[i])]
         \o urlencode(Tail(dict))

\* The URL requested for page `pg` of a search URL
PaginatedUrl(url, pg) ==
    Url(url.path, urlencode(SetItem(parse_qs(url.query), "start", <<Str(pg * 25)>>)))

NoUrl == Url(<<>>, <<>>)

NoSearchConfig == [name |-> 0, url |-> NoUrl]

\* The call: `job_info_list = fetch_job_ids_from_url(search_config)`
CallFetchJobIds(search_config) ==
    /\ ppc' = "loop"
    /\ search_url_config' = search_config
    /\ paginated_url' = NoUrl
    /\ page' = 0
    /\ all_jobs' = <<>>
    /\ max_pages' = Config.MAX_PAGES_PER_SEARCH
    /\ pagesRequested' = <<>>
    /\ pageYields' = <<>>
    /\ breakStatus' = 0

\* `while page < max_pages`: request the page, or leave the loop and return
fetch_job_ids_page ==
    /\ ppc = "loop"
    /\ IF page < max_pages
       THEN /\ paginated_url' = PaginatedUrl(search_url_config.url, page)
            /\ ppc' = "wait"
            /\ CallRequest("page")
       ELSE /\ ppc' = "returned"
            /\ UNCHANGED <<paginated_url, reqVars>>
    /\ UNCHANGED <<entry, callVars, mpc, env, authVars, cfgVars, orchVars, search_url_config,
                   page, max_pages, breakStatus,
                   all_jobs, pagesRequested, pageYields, detailVars, lastWait, paced>>

\* A mutation of Break: the loop goes on with the next page.
BreakSkipsPage ==
    /\ ppc' = "loop"
    /\ page' = page + 1
    /\ UNCHANGED <<lastWait, paced>>

\* `break` out of the page loop: the function goes on to `return all_jobs`
Break ==
    /\ ppc' = "returned"
    /\ UNCHANGED <<page, lastWait, paced>>

\* The body of the loop after make_authenticated_request returned
fetch_job_ids_response ==
    /\ ppc = "wait" /\ rpc = "returned" /\ caller = "page"
    /\ RequestConsumed
    /\ IF Falsy(ret)
       THEN /\ Break
            /\ breakStatus' = lastStatus
            /\ UNCHANGED <<all_jobs, pageYields, HEADERS_LIST, count>>
       ELSE IF ret.status_code = 429
       THEN /\ lastWait' = Config.RETRY_WAIT_429
            /\ paced' = TRUE
            /\ add_random_headers(Config.RANDOM_HEADERS_COUNT)
            /\ ppc' = "loop"
            /\ UNCHANGED <<page, all_jobs, pageYields, breakStatus>>
       ELSE IF ret.status_code # 200
       THEN /\ Break
            /\ breakStatus' = lastStatus
            /\ UNCHANGED <<all_jobs, pageYields, HEADERS_LIST, count>>
       ELSE /\ all_jobs' = all_jobs \o PageJobs(ret.listing)
            /\ pageYields' = Append(pageYields, Len(PageJobs(ret.listing)))
            /\ IF PageEnds(ret.listing)
               THEN /\ Break
                    /\ breakStatus' = lastStatus
               ELSE /\ page' = page + 1
                    /\ lastWait' = Config.PAGE_DELAY
                    /\ paced' = TRUE
                    /\ ppc' = "loop"
                    /\ UNCHANGED breakStatus
            /\ UNCHANGED <<HEADERS_LIST, count>>
    /\ UNCHANGED <<entry, config_data, mpc, env, authVars, Config, orchVars, search_url_config,
                   paginated_url, max_pages, pagesRequested, detailVars>>

\* The locals of fetch_job_ids_from_url are gone once its caller has the list.
FetchJobIdsConsumed ==
    /\ ppc' = "idle"
    /\ breakStatus' = 0
    /\ search_url_config' = NoSearchConfig
    /\ paginated_url' = NoUrl
    /\ page' = 0
    /\ max_pages' = 0
    /\ all_jobs' = <<>>
    /\ pagesRequested' = <<>>
    /\ pageYields' = <<>>

(***************************************************************************)
(* fetch_job_details                                                        *)
(***************************************************************************)
selectors ==
    [ company_name |->
        << ".job-details-jobs-unified-top-card__company-name a",
           ".jobs-unified-top-card__company-name a",
           ".topcard__org-name-link",
           "a[data-tracking-control-name=job_details_topcard_company_url]" >>,
      job_title |->
        << ".job-details-jobs-unified-top-card__job-title h1",
           ".jobs-unified-top-card__job-title h1",
           ".topcard__title",
           "h1.jobs-unified-top-card__job-title" >>,
      time_posted |->
        << ".job-details-jobs-unified-top-card__primary-description-container .tvm__text",
           ".jobs-unified-top-card__subtitle .tvm__text",
           ".posted-time-ago__text",
           "span[data-tracking-control-name=job_details_topcard_posted_time]" >>,
      num_applicants |->
        << ".job-details-jobs-unified-top-card__primary-description-container .tvm__text--low-emphasis",
           ".jobs-unified-top-card__subtitle .tvm__text--low-emphasis",
           ".num-applicants__caption" >>,
      job_location |->
        << ".job-details-jobs-unified-top-card__primary-description-container .tvm__text--neutral",
           ".jobs-unified-top-card__bullet",
           ".topcard__flavor--bullet" >> ]

description_selectors ==
    << ".jobs-description-content__text", ".jobs-box__html-content",
       ".description__text", ".jobs-description__content" >>

\* A mutation of FirstElementText: no sentinel when no selector matches.
FirstElementTextOrNone(detail, selector_list) ==
    LET found == {i \in 1..Len(selector_list) : selector_list[i] \in DOMAIN detail}
    IN  IF found = {} THEN None
        ELSE detail[selector_list[CHOOSE i \in found : \A j \in found : i <= j]]

RECURSIVE FirstElementText(_, _)
\* The loop over a selector list: the text of the first selector that
\* select_one finds an element for, 'N/A' when there is none.
FirstElementText(detail, selector_list) ==
    IF selector_list = <<>> THEN "N/A"
    ELSE IF Head(selector_list) \in DOMAIN detail
    THEN detail[Head(selector_list)]
    ELSE FirstElementText(detail, Tail(selector_list))

\* str.lower(), one character
LowerChar(c) ==
    CASE c = "A" -> "a" [] c = "B" -> "b" [] c = "C" -> "c" [] c = "D" -> "d"
      [] c = "E" -> "e" [] c = "F" -> "f" [] c = "G" -> "g" [] c = "H" -> "h"
      [] c = "I" -> "i" [] c = "J" -> "j" [] c = "K" -> "k" [] c = "L" -> "l"
      [] c = "M" -> "m" [] c = "N" -> "n" [] c = "O" -> "o" [] c = "P" -> "p"
      [] c = "Q" -> "q" [] c = "R" -> "r" [] c = "S" -> "s" [] c = "T" -> "t"
      [] c = "U" -> "u" [] c = "V" -> "v" [] c = "W" -> "w" [] c = "X" -> "x"
      [] c = "Y" -> "y" [] c = "Z" -> "z" [] OTHER -> c

RECURSIVE Lower(_)
Lower(text) ==
    IF text = "" THEN ""
    ELSE LowerChar(SubSeq(text, 1, 1)) \o Lower(Tail(text))

RECURSIVE FindFrom(_, _, _)
\* str.find: the 0-based index of the first occurrence of kw at or after i, or -1
FindFrom(text, kw, i) ==
    IF i + Len(kw) > Len(text) THEN -1
    ELSE IF SubSeq(text, i + 1, i + Len(kw)) = kw THEN i
    ELSE FindFrom(text, kw, i + 1)

Find(text, kw) == FindFrom(text, kw, 0)

RECURSIVE Strip(_)
\* str.strip()
Strip(text) ==
    IF text = "" THEN ""
    ELSE IF SubSeq(text, 1, 1) = " " THEN Strip(Tail(text))
    ELSE IF SubSeq(text, Len(text), Len(text)) = " "
    THEN Strip(SubSeq(text, 1, Len(text) - 1))
    ELSE text

Max(a, b) == IF a >= b THEN a ELSE b
Min(a, b) == IF a <= b THEN a ELSE b

experience_keywords == <<"experience", "years", "level", "senior", "junior", "entry">>

\* job['experience_needed']: the context of the first keyword of the list
\* that the description contains
ExperienceNeeded(description_content) ==
    IF description_content = "N/A" THEN "N/A"
    ELSE LET desc_text == Lower(description_content)
             found == {k \in 1..Len(experience_keywords) :
                          Find(desc_text, experience_keywords[k]) >= 0}
         IN  IF found = {} THEN "N/A"
             ELSE LET k == CHOOSE j \in found : \A h \in found : j <= h
                      start_idx == Find(desc_text, experience_keywords[k])
                      context_start == Max(0, start_idx - 50)
                      context_end == Min(Len(description_content), start_idx + 150)
                  IN  Strip(SubSeq(description_content, context_start + 1, context_end))
                      \o "..."

\* dict.get(key, default)
Get(dict, key, default) == IF key \in DOMAIN dict THEN dict[key] ELSE default

\* The job dict built from a 200 response.
ParseJob(info, detail) ==
    LET description_content == FirstElementText(detail, description_selectors)
    IN  [ job_id |-> info.job_id,
          job_url |-> "https://www.linkedin.com/jobs/view/" \o info.job_id,
          has_easy_apply |-> Get(info, "has_easy_apply", FALSE),
          application_type |-> Get(info, "application_type", "Unknown"),
          company_name |-> FirstElementText(detail, selectors.company_name),
          job_title |-> FirstElementText(detail, selectors.job_title),
          time_posted |-> FirstElementText(detail, selectors.time_posted),
          num_applicants |-> FirstElementText(detail, selectors.num_applicants),
          job_location |-> FirstElementText(detail, selectors.job_location),
          description_content |-> description_content,
          experience_needed |-> ExperienceNeeded(description_content) ]

NoJobInfo == [job_id |-> None, has_easy_apply |-> FALSE, application_type |-> None]

\* The call: `job_detail = fetch_job_details(job_info)`.  A returned dict is
\* held as a one-element sequence, the empty dict as the empty sequence.
CallFetchJobDetails(info) ==
    /\ dpc' = "loop"
    /\ job_info' = info
    /\ attempts' = 0
    /\ job_detail' = <<>>
    /\ detailRequests' = 0
    /\ detailSleeps' = 0
    /\ detailAnswers' = {}

\* A mutation of MoreAttempts: one try more than configured.
MoreAttemptsOffByOne(n) == n <= Config.MAX_ATTEMPTS

\* `attempts < max_attempts`
MoreAttempts(n) == n < Config.MAX_ATTEMPTS

\* `while attempts < max_attempts`: request the job page, or give up
fetch_job_details_attempt ==
    /\ dpc = "loop"
    /\ IF MoreAttempts(attempts)
       THEN dpc' = "wait" /\ CallRequest("detail") /\ UNCHANGED job_detail
       ELSE dpc' = "returned" /\ job_detail' = <<>> /\ UNCHANGED reqVars
    /\ UNCHANGED <<entry, callVars, mpc, env, authVars, cfgVars, orchVars, pageVars,
                   job_info, attempts, detailRequests, detailSleeps, detailAnswers,
                   lastWait, paced>>

\* The body of the loop after make_authenticated_request returned
fetch_job_details_response ==
    /\ dpc = "wait" /\ rpc = "returned" /\ caller = "detail"
    /\ RequestConsumed
    /\ IF Falsy(ret)
       THEN /\ attempts' = attempts + 1
            /\ dpc' = "loop"
            /\ UNCHANGED <<job_detail, detailSleeps, lastWait, paced>>
       ELSE IF ret.status_code = 429
       THEN /\ lastWait' = Config.RETRY_WAIT_429 * Pow2(attempts)
            /\ paced' = TRUE
            /\ detailSleeps' = detailSleeps + 1
            /\ attempts' = attempts + 1
            /\ dpc' = "loop"
            /\ UNCHANGED job_detail
       ELSE IF ret.status_code = 404
       THEN /\ job_detail' = <<>>
            /\ dpc' = "returned"
            /\ UNCHANGED <<attempts, detailSleeps, lastWait, paced>>
       ELSE IF ret.status_code # 200
       THEN /\ lastWait' = Config.RETRY_WAIT_NON_429
            /\ paced' = TRUE
            /\ detailSleeps' = detailSleeps + 1
            /\ attempts' = attempts + 1
            /\ dpc' = "loop"
            /\ UNCHANGED job_detail
       ELSE /\ job_detail' = <<ParseJob(job_info, ret.detail)>>
            /\ dpc' = "returned"
            /\ UNCHANGED <<attempts, detailSleeps, lastWait, paced>>
    /\ UNCHANGED <<entry, callVars, mpc, env, authVars, cfgVars, orchVars, pageVars,
                   job_info, detailRequests, detailAnswers>>

\* The locals of fetch_job_details are gone once its caller has the result.
FetchJobDetailsConsumed ==
    /\ dpc' = "idle"
    /\ job_info' = NoJobInfo
    /\ attempts' = 0
    /\ job_detail' = <<>>
    /\ detailRequests' = 0
    /\ detailSleeps' = 0
    /\ detailAnswers' = {}

(***************************************************************************)
(* The orchestrators: main(), and the /jobs handlers of the API server.     *)
(***************************************************************************)
notOrch == <<pageVars, detailVars, reqVars>>

NoRequest == [search_urls |-> <<>>, max_pages |-> 0, filter_easy_apply |-> FALSE]

\* The list the running orchestrator loops over.
search_urls ==
    IF handler = "custom" /\ request.search_urls # <<>>
    THEN request.search_urls
    ELSE Config.SEARCH_URLS

\* A mutation of AfterLogin: the run goes on whatever login() returned.
AfterLoginIgnored(result) == "init"

\* A mutation of AfterLogin: a failed login is tried again.
AfterLoginRetried(result) == IF result = "True" THEN "init" ELSE "start"

\* `if not linkedin_auth.login(): sys.exit(1)`: where the entry point goes
AfterLogin(result) == IF result = "True" THEN "init" ELSE "exit1"

\* main(): `if not linkedin_auth.login()`, the call
main_login_call ==
    /\ entry = "main" /\ mpc = "start"
    /\ mpc' = "login"
    /\ lpc' = "cookies"
    /\ UNCHANGED <<entry, callVars, env, is_authenticated, csrf_token, session_cookies,
                   response, verified, loginResult, authLog, notAuth, lastWait, paced>>

\* main(): `if not linkedin_auth.login(): sys.exit(1)`, the result
main_login_return ==
    /\ entry = "main" /\ mpc = "login" /\ lpc = "returned"
    /\ mpc' = AfterLogin(loginResult)
    /\ LoginConsumed
    /\ UNCHANGED <<entry, callVars, env, notAuth, lastWait, paced>>

\* main(): the header pool and the empty collections
main_init ==
    /\ entry = "main" /\ mpc = "init"
    /\ add_random_headers(Config.INITIAL_HEADERS_COUNT)
    /\ handler' = "main"
    /\ all_job_data' = <<>>
    /\ overall_monitoring' = <<>>
    /\ qi' = 0
    /\ mpc' = "for_search"
    /\ UNCHANGED <<entry, config_data, env, authVars, Config, request, job_info_list, ji, summaryVars,
                   unique_jobs, original_max_pages, notOrch, lastWait, paced>>

\* startup_event: `if not linkedin_auth.login()`, the call
startup_event_login_call ==
    /\ entry = "app" /\ mpc = "start"
    /\ mpc' = "login"
    /\ lpc' = "cookies"
    /\ UNCHANGED <<entry, callVars, env, is_authenticated, csrf_token, session_cookies,
                   response, verified, loginResult, authLog, notAuth, lastWait, paced>>

\* startup_event: `if not linkedin_auth.login(): sys.exit(1)`, the result
startup_event_login_return ==
    /\ entry = "app" /\ mpc = "login" /\ lpc = "returned"
    /\ mpc' = AfterLogin(loginResult)
    /\ LoginConsumed
    /\ UNCHANGED <<entry, callVars, env, notAuth, lastWait, paced>>

\* startup_event: the header pool; the server then waits for requests
startup_event_init ==
    /\ entry = "app" /\ mpc = "init"
    /\ add_random_headers(Config.INITIAL_HEADERS_COUNT)
    /\ mpc' = "serving"
    /\ UNCHANGED <<entry, config_data, env, authVars, Config, orchVars, notOrch, lastWait, paced>>

\* GET /jobs: scrape_jobs_default up to its loop
scrape_jobs_default ==
    /\ entry = "app" /\ mpc = "serving"
    /\ handler' = "default"
    /\ request' = NoRequest
    /\ all_job_data' = <<>>
    /\ unique_jobs' = {}
    /\ qi' = 0
    /\ job_info_list' = <<>>
    /\ ji' = 0
    /\ mpc' = "for_search"
    /\ UNCHANGED <<entry, callVars, env, authVars, cfgVars, overall_monitoring, summaryVars,
                   original_max_pages, notOrch, lastWait, paced>>

\* The bodies of POST /jobs/custom: no search_urls (None) and max_pages up to
\* the configured one (0: None), or a search entry without 'url' and more
\* pages than configured.
JobRequests ==
    [search_urls : {<<>>}, max_pages : 0..RunMaxPages, filter_easy_apply : BOOLEAN]
      \cup { [search_urls |-> <<[name |-> 1]>>, max_pages |-> RunMaxPages + 1,
              filter_easy_apply |-> FALSE] }

\* POST /jobs/custom: scrape_jobs_custom up to its loop
scrape_jobs_custom ==
    /\ entry = "app" /\ mpc = "serving"
    /\ \E rq \in JobRequests :
         /\ request' = rq
         /\ original_max_pages' = Config.MAX_PAGES_PER_SEARCH
         /\ Config' = [Config EXCEPT !.MAX_PAGES_PER_SEARCH =
                          IF rq.max_pages # 0 THEN rq.max_pages ELSE @]
    /\ handler' = "custom"
    /\ all_job_data' = <<>>
    /\ unique_jobs' = {}
    /\ qi' = 0
    /\ job_info_list' = <<>>
    /\ ji' = 0
    /\ mpc' = "for_search"
    /\ UNCHANGED <<entry, callVars, env, authVars, HEADERS_LIST, overall_monitoring, summaryVars,
                   notOrch, lastWait, paced>>

\* `for search_config in ...`: the next search, and the call of
\* fetch_job_ids_from_url for it
\* (`search_url_config['name']`, `search_url_config['url']` raise KeyError on
\* an entry without the key and the handler's `except Exception` answers 500;
\* the server is followed up to its first such answer)
for_search_config ==
    /\ mpc = "for_search" /\ qi < Len(search_urls)
    /\ qi' = qi + 1
    /\ IF {"name", "url"} \subseteq DOMAIN search_urls[qi + 1]
       THEN /\ CallFetchJobIds(search_urls[qi + 1])
            /\ mpc' = "paginate"
       ELSE /\ mpc' = "error500"
            /\ UNCHANGED pageVars
    /\ UNCHANGED <<entry, callVars, env, authVars, cfgVars, handler, request, job_info_list,
                   ji, unique_jobs, all_job_data, overall_monitoring, summaryVars,
                   original_max_pages, detailVars, reqVars, lastWait, paced>>

\* fetch_job_ids_from_url returned: job_info_list, and in main() the
\* search's own `unique_jobs = set()`
search_fetched ==
    /\ mpc = "paginate" /\ ppc = "returned" /\ handler # "none"
    /\ job_info_list' = all_jobs
    /\ ji' = 0
    /\ unique_jobs' = IF handler = "main" THEN {} ELSE unique_jobs
    /\ FetchJobIdsConsumed
    /\ mpc' = "for_job"
    /\ UNCHANGED <<entry, callVars, env, authVars, cfgVars, handler, request, qi, all_job_data,
                   overall_monitoring, summaryVars, original_max_pages, detailVars, reqVars,
                   lastWait, paced>>

\* `for job_info in job_info_list`: skip a seen id, or call fetch_job_details
for_job_info ==
    /\ mpc = "for_job" /\ ji < Len(job_info_list)
    /\ ji' = ji + 1
    /\ LET info == job_info_list[ji + 1]
       IN  IF info.job_id \in unique_jobs
           THEN UNCHANGED <<mpc, detailVars>>
           ELSE mpc' = "detail" /\ CallFetchJobDetails(info)
    /\ UNCHANGED <<entry, callVars, env, authVars, cfgVars, handler, request, qi, job_info_list,
                   unique_jobs, all_job_data, overall_monitoring, summaryVars, original_max_pages,
                   pageVars, reqVars, lastWait, paced>>

\* A mutation of AfterDetail: an empty result ends the run.
AfterDetailAborts(detail) == IF detail = <<>> THEN "exit1" ELSE "for_job"

\* Where the orchestrator goes on once fetch_job_details has returned: the
\* inner loop, whatever the result.
AfterDetail(detail) == "for_job"

\* A mutation of Kept: the Easy Apply filter is not applied.
KeptUnfiltered(detail) == detail # <<>>

\* `if job_detail:`, and in scrape_jobs_custom the Easy Apply filter whose
\* `continue` skips the record
Kept(detail) ==
    /\ detail # <<>>
    /\ ~ (handler = "custom" /\ request.filter_easy_apply
          /\ ~ detail[1].has_easy_apply)

\* fetch_job_details returned: a kept record is appended and its id marked seen
job_fetched ==
    /\ mpc = "detail" /\ dpc = "returned" /\ handler # "none"
    /\ IF Kept(job_detail)
       THEN /\ all_job_data' = Append(all_job_data, job_detail[1])
            /\ unique_jobs' = unique_jobs \cup {job_info.job_id}
       ELSE UNCHANGED <<all_job_data, unique_jobs>>
    /\ FetchJobDetailsConsumed
    /\ mpc' = AfterDetail(job_detail)
    /\ UNCHANGED <<entry, callVars, env, authVars, cfgVars, handler, request, qi, job_info_list,
                   ji, overall_monitoring, summaryVars, original_max_pages, pageVars, reqVars,
                   lastWait, paced>>

\* The end of the inner loop: main() appends the search's monitoring record.
search_done ==
    /\ mpc = "for_job" /\ ji = Len(job_info_list)
    /\ overall_monitoring' =
         IF handler = "main"
         THEN Append(overall_monitoring,
                     [name |-> search_urls[qi].name,
                      jobs_found |-> Len(job_info_list),
                      unique_jobs |-> Cardinality(unique_jobs)])
         ELSE overall_monitoring
    /\ mpc' = "for_search"
    /\ UNCHANGED <<entry, callVars, env, authVars, cfgVars, handler, request, qi, job_info_list,
                   ji, unique_jobs, all_job_data, summaryVars, original_max_pages,
                   notOrch, lastWait, paced>>

\* A mutation of TotalUnique: the records are counted.
TotalRecords(data) == Len(data)

\* `total_unique = len(set(job['job_id'] for job in all_job_data))`
TotalUnique(data) == Cardinality({data[i].job_id : i \in 1..Len(data)})

\* `easy_apply_count = sum(1 for job in all_job_data if job.get('has_easy_apply', False))`
EasyApplyCount(data) == Cardinality({i \in 1..Len(data) : data[i].has_easy_apply})

\* main() after its loop: the CSV and the summary
main_summary ==
    /\ handler = "main" /\ mpc = "for_search" /\ qi = Len(search_urls)
    /\ IF all_job_data # <<>>
       THEN /\ total_unique' = TotalUnique(all_job_data)
            /\ easy_apply_count' = EasyApplyCount(all_job_data)
            /\ non_easy_apply_count' = total_unique' - easy_apply_count'
       ELSE UNCHANGED summaryVars
    /\ mpc' = "done"
    /\ UNCHANGED <<entry, callVars, env, authVars, cfgVars, handler, request, qi, job_info_list,
                   ji, unique_jobs, all_job_data, overall_monitoring,
                   original_max_pages, notOrch, lastWait, paced>>

\* scrape_jobs_default after its loop: the JobResponse
scrape_jobs_default_return ==
    /\ handler = "default" /\ mpc = "for_search" /\ qi = Len(search_urls)
    /\ mpc' = "serving"
    /\ UNCHANGED <<entry, callVars, env, authVars, cfgVars, orchVars, notOrch, lastWait, paced>>

\* scrape_jobs_custom after its loop: the config restored, the JobResponse
scrape_jobs_custom_return ==
    /\ handler = "custom" /\ mpc = "for_search" /\ qi = Len(search_urls)
    /\ Config' = [Config EXCEPT !.MAX_PAGES_PER_SEARCH = original_max_pages]
    /\ mpc' = "serving"
    /\ UNCHANGED <<entry, callVars, env, authVars, HEADERS_LIST, orchVars, notOrch, lastWait,
                   paced>>

\* Search URLs handed to a direct call of fetch_job_ids_from_url: plain, with
\* a start parameter of its own, with a blank parameter, with a repeated one.
SearchUrls ==
    { Url(<<"jobs", "search">>, q) :
        q \in { <<Param("keywords", "engineer"), Param("f_TPR", "r3600")>>,
                <<Param("keywords", "engineer"), Param("start", "50")>>,
                <<Param("keywords", ""), Param("f_TPR", "r3600")>>,
                <<Param("f_E", "2"), Param("keywords", "engineer"), Param("f_E", "3")>> } }

(***************************************************************************)
(* Direct calls of the scraping functions (a caller that imported them).    *)
(***************************************************************************)
direct_fetch_job_ids_call ==
    /\ entry = "fetch_job_ids_from_url" /\ mpc = "start"
    /\ \E url \in SearchUrls : CallFetchJobIds([name |-> 1, url |-> url])
    /\ mpc' = "paginate"
    /\ UNCHANGED <<entry, callVars, env, authVars, cfgVars, orchVars, detailVars, reqVars,
                   lastWait, paced>>

\* The caller keeps the returned list; the history of the call stays visible.
direct_fetch_job_ids_return ==
    /\ entry = "fetch_job_ids_from_url" /\ mpc = "paginate" /\ ppc = "returned"
    /\ job_info_list' = all_jobs
    /\ mpc' = "done"
    /\ UNCHANGED <<entry, callVars, env, authVars, cfgVars, handler, request, qi, ji,
                   unique_jobs, all_job_data, overall_monitoring, summaryVars, original_max_pages,
                   notOrch, lastWait, paced>>

direct_fetch_job_details_call ==
    /\ entry = "fetch_job_details" /\ mpc = "start"
    /\ \E info \in {Candidate("101", EasyHtml), Candidate("102", PlainHtml),
                      [job_id |-> "102"]} :
         CallFetchJobDetails(info)
    /\ mpc' = "detail"
    /\ UNCHANGED <<entry, callVars, env, authVars, cfgVars, orchVars, pageVars, reqVars,
                   lastWait, paced>>

\* The caller keeps the returned dict; the history of the call stays visible.
direct_fetch_job_details_return ==
    /\ entry = "fetch_job_details" /\ mpc = "detail" /\ dpc = "returned"
    /\ mpc' = "done"
    /\ UNCHANGED <<entry, callVars, env, authVars, cfgVars, orchVars, notOrch, lastWait, paced>>

\* add_random_headers(count) on the pool as it is
direct_add_random_headers ==
    /\ entry = "header_pool" /\ mpc \in {"start", "added", "picked"}
    /\ \E n \in 0..MaxCount :
         /\ Len(HEADERS_LIST) + n <= MaxPool
         /\ add_random_headers(n)
    /\ mpc' = "added"
    /\ UNCHANGED <<entry, config_data, env, authVars, Config, orchVars, notOrch,
                   lastWait, paced>>

\* get_random_header(): an empty pool is filled first, then one identity is
\* chosen; the pool is read only
direct_get_random_header ==
    /\ entry = "header_pool" /\ mpc \in {"start", "added", "picked"}
    /\ IF HEADERS_LIST = <<>>
       THEN add_random_headers(Config.INITIAL_HEADERS_COUNT)
       ELSE UNCHANGED <<HEADERS_LIST, count>>
    /\ mpc' = "picked"
    /\ UNCHANGED <<entry, config_data, env, authVars, Config, orchVars, notOrch,
                   lastWait, paced>>

direct_request_call ==
    /\ entry = "make_authenticated_request" /\ mpc = "start"
    /\ CallRequest("direct")
    /\ mpc' = "request"
    /\ UNCHANGED <<entry, callVars, env, authVars, cfgVars, orchVars, pageVars, detailVars,
                   lastWait, paced>>

direct_request_return ==
    /\ entry = "make_authenticated_request" /\ mpc = "request" /\ rpc = "returned"
    /\ mpc' = "done"
    /\ UNCHANGED <<entry, callVars, env, authVars, cfgVars, orchVars, notOrch, lastWait, paced>>

(***************************************************************************)
(* Bounds, initial states and specifications                                *)
(***************************************************************************)
SearchConfig(n) ==
    [ name |-> n,
      url |-> Url(<<"jobs", "search">>,
                  <<Param("keywords", "engineer"), Param("f_TPR", "r3600")>>) ]

ConfigOf(searches, pages, tries) ==
    [ BASE_LIST_URL |-> "https://www.linkedin.com/jobs/search",
      BASE_JOB_URL |-> "https://www.linkedin.com/jobs/view/",
      REQUEST_TIMEOUT |-> 10,
      CSV_FILENAME |-> "jobs.csv",
      OUTPUT_FIELDS |-> <<"job_id", "title", "company">>,
      MAX_PAGES_PER_SEARCH |-> pages,
      MAX_ATTEMPTS |-> tries,
      SEARCH_URLS |-> [i \in 1..searches |-> SearchConfig(i)],
      FILTER_EASY_APPLY |-> FALSE,
      PAGE_DELAY |-> 2,
      INITIAL_HEADERS_COUNT |-> 1,
      RANDOM_HEADERS_COUNT |-> 1,
      RETRY_WAIT_429 |-> 30,
      RETRY_WAIT_NON_429 |-> 7 ]

\* The Config class as its body leaves it
ConfigDefaults ==
    [ BASE_LIST_URL |-> "",
      BASE_JOB_URL |-> "",
      MAX_PAGES_PER_SEARCH |-> 0,
      FILTER_EASY_APPLY |-> FALSE,
      SEARCH_URLS |-> <<>>,
      REQUEST_TIMEOUT |-> 0,
      PAGE_DELAY |-> 0,
      CSV_FILENAME |-> "",
      INITIAL_HEADERS_COUNT |-> 0,
      RANDOM_HEADERS_COUNT |-> 0,
      MAX_ATTEMPTS |-> 0,
      RETRY_WAIT_429 |-> 0,
      RETRY_WAIT_NON_429 |-> 0,
      OUTPUT_FIELDS |-> <<>> ]

\* The files load_config_from_json can find: none, one that is not JSON, an
\* object lacking up to MaxMissing of the required keys, an object with a key
\* more.
Without(data, keys) == [k \in DOMAIN data \ keys |-> data[k]]

ConfigFiles ==
    {NoFile, NotJson}
      \cup { JsonFile(Without(cfg, keys)) :
                cfg \in {ConfigOf(1, 1, 1), ConfigOf(2, 2, 2)},
                keys \in {K \in SUBSET required_keys : Cardinality(K) <= MaxMissing} }
      \cup { JsonFile(ConfigOf(1, 1, 1) @@ ("COMMENT" :> "")) }

\* The state after import: a fresh LinkedInAuth, nothing called yet.
InitCommon ==
    /\ mpc = "start"
    /\ is_authenticated = FALSE
    /\ csrf_token = None
    /\ session_cookies = {}
    /\ lpc = "idle"
    /\ response = NoResponse
    /\ verified = FALSE
    /\ loginResult = "none"
    /\ authLog = <<>>
    /\ HEADERS_LIST = <<>>
    /\ handler = "none"
    /\ request = NoRequest
    /\ qi = 0
    /\ job_info_list = <<>>
    /\ ji = 0
    /\ unique_jobs = {}
    /\ all_job_data = <<>>
    /\ overall_monitoring = <<>>
    /\ total_unique = 0
    /\ easy_apply_count = 0
    /\ non_easy_apply_count = 0
    /\ original_max_pages = 0
    /\ ppc = "idle" /\ page = 0 /\ max_pages = 0 /\ all_jobs = <<>>
    /\ search_url_config = NoSearchConfig /\ paginated_url = NoUrl
    /\ pagesRequested = <<>> /\ pageYields = <<>> /\ breakStatus = 0
    /\ dpc = "idle" /\ job_info = NoJobInfo /\ attempts = 0 /\ job_detail = <<>>
    /\ detailRequests = 0 /\ detailSleeps = 0 /\ detailAnswers = {}
    /\ rpc = "idle" /\ caller = "none" /\ attempt = 0 /\ ret = NoneResp
    /\ lastStatus = 0
    /\ lastWait = 0
    /\ paced = TRUE
    /\ count = 0

Environments == [cookies : SUBSET {"li_at", "JSESSIONID"}, credentials : BOOLEAN]

\* Whole runs: credentials and no exported cookie, or the exported session
\* cookies and no credentials.
RunEnvironments ==
    { [cookies |-> {}, credentials |-> TRUE],
      [cookies |-> {"li_at", "JSESSIONID"}, credentials |-> FALSE] }

\* A whole run: main(), or the API server.
Init ==
    /\ entry \in {"main", "app"}
    /\ env \in RunEnvironments
    /\ Config \in {ConfigOf(n, p, t) : n \in 1..RunSearches, p \in 1..RunMaxPages,
                                       t \in 1..RunMaxAttempts}
    /\ config_data = JsonFile(Config)
    /\ InitCommon

LoginNext ==
    \/ login_with_cookies
    \/ get_credentials
    \/ login_fetch_page
    \/ login_submit

ScrapeNext ==
    \/ make_authenticated_request
    \/ fetch_job_ids_page
    \/ fetch_job_ids_response
    \/ fetch_job_details_attempt
    \/ fetch_job_details_response

Next ==
    \/ LoginNext
    \/ main_login_call
    \/ main_login_return
    \/ main_init
    \/ startup_event_login_call
    \/ startup_event_login_return
    \/ startup_event_init
    \/ scrape_jobs_default
    \/ scrape_jobs_custom
    \/ for_search_config
    \/ search_fetched
    \/ for_job_info
    \/ job_fetched
    \/ search_done
    \/ main_summary
    \/ scrape_jobs_default_return
    \/ scrape_jobs_custom_return
    \/ ScrapeNext

Spec == Init /\ [][Next]_vars

\* main() run to its end: the script is sequential code, every request has a
\* timeout and every sleep ends, so an enabled step is eventually taken.
InitMain ==
    /\ entry = "main"
    /\ env \in RunEnvironments
    /\ Config \in {ConfigOf(n, p, t) : n \in 1..MainSearches, p \in 1..MainMaxPages,
                                       t \in 1..MainMaxAttempts}
    /\ config_data = JsonFile(Config)
    /\ InitCommon

NextMain ==
    \/ LoginNext
    \/ main_login_call
    \/ main_login_return
    \/ main_init
    \/ for_search_config
    \/ search_fetched
    \/ for_job_info
    \/ job_fetched
    \/ search_done
    \/ main_summary
    \/ ScrapeNext

SpecMain == InitMain /\ [][NextMain]_vars /\ WF_vars(NextMain)

\* test_authentication: login() on a fresh LinkedInAuth, any server answer.
InitAuth ==
    /\ entry = "test_auth"
    /\ env \in Environments
    /\ Config = ConfigOf(1, 1, 1)
    /\ config_data = JsonFile(Config)
    /\ InitCommon

NextAuth ==
    \/ test_authentication_call
    \/ test_authentication_return
    \/ LoginNext

SpecAuth == InitAuth /\ [][NextAuth]_vars

\* A direct call of one scraping function, login() not called.
InitUnit ==
    /\ entry \in {"fetch_job_ids_from_url", "fetch_job_details",
                  "make_authenticated_request", "header_pool"}
    /\ env \in {[cookies |-> {}, credentials |-> TRUE]}
    /\ Config \in {ConfigOf(1, p, t) : p \in 1..UnitMaxPages, t \in 1..UnitMaxAttempts}
    /\ config_data = JsonFile(Config)
    /\ InitCommon

NextUnit ==
    \/ direct_fetch_job_ids_call
    \/ direct_fetch_job_ids_return
    \/ direct_fetch_job_details_call
    \/ direct_fetch_job_details_return
    \/ direct_request_call
    \/ direct_request_return
    \/ direct_add_random_headers
    \/ direct_get_random_header
    \/ ScrapeNext

SpecUnit == InitUnit /\ [][NextUnit]_vars

\* A direct call of make_authenticated_request, run to its end: the loop is
\* sequential code and every requests.get ends (timeout=10), so an enabled
\* iteration is eventually executed.
InitRequest ==
    /\ entry = "make_authenticated_request"
    /\ env \in {[cookies |-> {}, credentials |-> TRUE]}
    /\ Config \in {ConfigOf(1, p, t) : p \in 1..UnitMaxPages, t \in 1..UnitMaxAttempts}
    /\ config_data = JsonFile(Config)
    /\ InitCommon

NextRequest ==
    \/ direct_request_call
    \/ direct_request_return
    \/ make_authenticated_request

SpecRequest ==
    InitRequest /\ [][NextRequest]_vars /\ WF_vars(make_authenticated_request)

\* `load_config_from_json("config.json")` on the Config class as imported.
InitConfig ==
    /\ entry = "load_config_from_json"
    /\ env \in {[cookies |-> {}, credentials |-> TRUE]}
    /\ Config = ConfigDefaults
    /\ config_data \in ConfigFiles
    /\ InitCommon

NextConfig == load_config_from_json

SpecConfig == InitConfig /\ [][NextConfig]_vars

(***************************************************************************)
(* Properties                                                               *)
(***************************************************************************)
\* The job ids of the records collected so far.
CollectedIds == {all_job_data[i].job_id : i \in 1..Len(all_job_data)}

\* C1: in every run of an orchestrator the aggregated collection never holds
\* two records with the same job id, so the number of records equals the
\* number of distinct ids collected (marked seen) during the run.
C1_NoDuplicateRecords ==
    /\ \A i, j \in 1..Len(all_job_data) :
         i # j => all_job_data[i].job_id # all_job_data[j].job_id
    /\ Len(all_job_data) = Cardinality(CollectedIds)

\* C2: while fetch_job_details runs for a candidate of an orchestrator, that
\* candidate's id is not one whose record was collected earlier in the run:
\* an id already seen is never passed to the detail extractor again.
C2_SeenNotFetchedAgain ==
    (handler # "none" /\ dpc # "idle") => job_info.job_id \notin CollectedIds

\* C3: when the answers to a job's detail requests have been HTTP 404,
\* exactly one request was issued for the job, nothing was slept, no further
\* attempt is pending and the result, once returned, is empty.
C3_NotFoundSingleRequest ==
    detailAnswers = {404} =>
        /\ detailRequests = 1
        /\ detailSleeps = 0
        /\ rpc # "loop"
        /\ dpc = "returned" => job_detail = <<>>

\* The first authentication request was the cookie verification.
CookieAttempt == authLog # <<>> /\ authLog[1].req = "GET /feed/"

\* The credential path was entered: credentials read, or the login page
\* or the credential POST requested.
CredentialPath ==
    \/ lpc \in {"credentials", "login_page", "submit", "exited"}
    \/ \E i \in 1..Len(authLog) : authLog[i].req # "GET /feed/"

\* C4: when the response to the cookie verification satisfies the
\* authentication-verified predicate, login() has returned True with
\* is_authenticated set and the credential path was never entered.
C4_CookieFastPath ==
    (CookieAttempt /\ authLog[1].verified = "True") =>
        /\ lpc \in {"returned", "done"}
        /\ loginResult = "True"
        /\ is_authenticated
        /\ ~ CredentialPath

C4_Witness ==
    /\ CookieAttempt /\ authLog[1].verified = "True"
    /\ mpc = "done" /\ loginResult = "True"

\* Both the cookie verification and the credential submission were answered
\* and neither answer satisfied the predicate.
BothRefused ==
    /\ CookieAttempt /\ authLog[1].verified = "False"
    /\ \E i \in 1..Len(authLog) :
         /\ authLog[i].req = "POST /checkpoint/lg/login-submit"
         /\ authLog[i].verified = "False"

\* C5: when the predicate is false for the cookie response and for the
\* credential response, login() went cookie attempt, login page, credential
\* POST in that order and returned False with is_authenticated still False.
C5_FallThroughToFailed ==
    BothRefused =>
        /\ Len(authLog) = 3
        /\ authLog[2].req = "GET /login"
        /\ authLog[3].req = "POST /checkpoint/lg/login-submit"
        /\ lpc \in {"returned", "done"}
        /\ loginResult = "False"
        /\ ~ is_authenticated

C5_Witness == BothRefused /\ mpc = "done" /\ loginResult = "False"

\* The authentication state, read off the position of login().
AuthState ==
    CASE lpc = "idle" -> "Unauthenticated"
      [] lpc = "cookies" -> "CookieAttempted"
      [] lpc \in {"credentials", "login_page", "submit"} -> "CredentialAttempted"
      [] lpc \in {"returned", "done"} /\ loginResult = "True" -> "Authenticated"
      [] OTHER -> "Failed"

AuthRank(st) ==
    CASE st = "Unauthenticated" -> 0
      [] st = "CookieAttempted" -> 1
      [] st = "CredentialAttempted" -> 2
      [] OTHER -> 3

\* C6: every step moves the authentication state forward or leaves it; once
\* it is Authenticated or Failed no step changes it, issues another
\* authentication request or changes is_authenticated; and is_authenticated
\* is set only in Authenticated.
C6_AuthForwardAndTerminal ==
    [][ /\ AuthRank(AuthState') >= AuthRank(AuthState)
        /\ AuthState \in {"Authenticated", "Failed"} =>
              /\ AuthState' = AuthState
              /\ authLog' = authLog
              /\ is_authenticated' = is_authenticated
        /\ is_authenticated' => AuthState' = "Authenticated" ]_vars

\* A detail request answered with an error status long after login() ended.
C6_Witness ==
    /\ AuthState = "Authenticated" /\ lpc = "done"
    /\ caller = "detail" /\ lastStatus = 500
    /\ Len(all_job_data) >= 1

C8_AuthFailureFatal ==
    /\ (rpc # "idle" \/ ppc # "idle" \/ dpc # "idle") =>
          (lpc = "done" /\ loginResult = "True")
    /\ (lpc \in {"done", "exited"} /\ loginResult # "True") =>
          /\ mpc = "exit1"
          /\ handler = "none"
          /\ HEADERS_LIST = <<>>
          /\ all_job_data = <<>>

C8_Witness == mpc = "exit1" /\ lpc = "done" /\ loginResult = "False"

\* The three signals of the authentication-verified predicate.
SignalUrl(r) ==
    \/ InUrl("feed", r.url)
    \/ InUrl("mynetwork", r.url)
    \/ InUrlProfile(r.url)

SignalCookie(r) == r.cookies \cap {"JSESSIONID", "li_at"} # {}

SignalMarker(r) ==
    \E e \in r.elements :
        \/ e.class \in {"global-nav", "nav-user-menu", "feed-container",
                        "authentication-outlet"}
        \/ e.testid = "nav-user-menu"

\* C9: whenever the response handed to verify_authentication shows at least
\* one of the three signals, the value it returned is True, whatever the
\* other signals and the status.
C9_VerifyIsDisjunction ==
    response # NoResponse =>
        ((SignalUrl(response) \/ SignalCookie(response) \/ SignalMarker(response))
            => verified)

\* Only the cookie signal, on a 401 answer.
C9_Witness ==
    /\ response # NoResponse
    /\ SignalCookie(response)
    /\ ~ SignalUrl(response) /\ ~ SignalMarker(response)
    /\ response.status_code = 401
    /\ verified

\* C10: once a fetched listing page has added no candidate,
\* fetch_job_ids_from_url has returned; with candidates on page 0 and none
\* on page 1 it returns exactly those of page 0 and never requests page 2.
C10_StopsOnZeroCandidates ==
    /\ 0 \in Range(pageYields) => ppc = "returned"
    /\ (Len(pageYields) >= 2 /\ pageYields[1] > 0 /\ pageYields[2] = 0) =>
          /\ Len(all_jobs) = pageYields[1]
          /\ 2 \notin Range(pagesRequested)

\* C11: listing pages are requested in increasing page order from page 0
\* without skipping an index, never at an index >= MAX_PAGES_PER_SEARCH, and
\* the URL requested for page p carries start = 25*p (and no other start)
\* together with every original query parameter of the search URL.
C11_PagesInOrderWithOffset ==
    /\ \A i \in 1..Len(pagesRequested) :
         /\ pagesRequested[i] < Config.MAX_PAGES_PER_SEARCH
         /\ i = 1 => pagesRequested[i] = 0
         /\ i > 1 => pagesRequested[i] \in
                        {pagesRequested[i - 1], pagesRequested[i - 1] + 1}
    /\ ppc = "wait" =>
         /\ paginated_url.path = search_url_config.url.path
         /\ \A p \in Range(paginated_url.query) :
              p.name = "start" => p.value = Str(25 * page)
         /\ Param("start", Str(25 * page)) \in Range(paginated_url.query)
         /\ \A p \in Range(search_url_config.url.query) :
              p.name # "start" => p \in Range(paginated_url.query)

\* C12: when the request for a listing page ended rate-limited (its last
\* answer was HTTP 429), the paginator's next step replenishes the identity
\* pool by RANDOM_HEADERS_COUNT and goes back to request the same page, with
\* the candidates collected so far kept.
C12_RateLimitedPageRetried ==
    [][ (ppc = "wait" /\ caller = "page" /\ rpc = "returned" /\ lastStatus = 429) =>
            /\ Len(HEADERS_LIST') = Len(HEADERS_LIST) + Config.RANDOM_HEADERS_COUNT
            /\ ppc' = "loop"
            /\ page' = page
            /\ all_jobs' = all_jobs ]_vars

RECURSIVE SumSeq(_)
SumSeq(sq) == IF sq = <<>> THEN 0 ELSE Head(sq) + SumSeq(Tail(sq))

\* A status that is neither a success, nor a rate limit, nor the absence of
\* an answer (0: none yet, -1: the request raised).
TransientError(status) == status \notin {-1, 0, 200, 429}

\* C13: when the request for a listing page ended in a transient server
\* error, the paginator's next step leaves the loop with all_jobs untouched;
\* having stopped on such an error it has returned, no page after the failed
\* one was requested, and all_jobs is what the earlier pages added.
C13_TransientErrorStopsPagination ==
    /\ [][ (ppc = "wait" /\ caller = "page" /\ rpc = "returned"
              /\ TransientError(lastStatus)) =>
                 (ppc' = "returned" /\ all_jobs' = all_jobs) ]_vars
    /\ [](TransientError(breakStatus) =>
             /\ ppc = "returned"
             /\ page = Len(pageYields)
             /\ \A i \in 1..Len(pagesRequested) : pagesRequested[i] <= page
             /\ Len(all_jobs) = SumSeq(pageYields)
             /\ mpc = "done" => job_info_list = all_jobs)

\* Page 0 gave a candidate, page 1 failed with 500 and the list came back.
C13_Witness ==
    /\ breakStatus = 500 /\ mpc = "done"
    /\ page = 1 /\ Len(job_info_list) >= 1

\* C14: after an HTTP 429 answer to attempt index a of a request, the wait
\* slept before the next attempt is RETRY_WAIT_429 * 2^a.
C14_RateLimitWaitFromConfig ==
    lastStatus = 429 => lastWait = Config.RETRY_WAIT_429 * Pow2(attempt - 1)

\* C15: the wait slept after an HTTP 429 answer is the rate-limit wait of the
\* attempt index, and that wait is non-decreasing in the attempt index over
\* 0..3 and strictly increases at least once there.
C15_RateLimitWaitGrows ==
    lastStatus = 429 =>
        /\ lastWait = RateLimitWait(attempt - 1)
        /\ \A a \in 0..2 : RateLimitWait(a) <= RateLimitWait(a + 1)
        /\ \E a \in 0..2 : RateLimitWait(a) < RateLimitWait(a + 1)
        /\ \A a \in 0..(attempt - 2) : RateLimitWait(a) < lastWait

\* The third attempt of one request was rate-limited as well.
C15_Witness == lastStatus = 429 /\ attempt = 3 /\ lastWait = 40

\* C16: after a transient server error the wait slept before the retry is
\* the configured RETRY_WAIT_NON_429, at every attempt index.
C16_TransientWaitFromConfig ==
    TransientError(lastStatus) => lastWait = Config.RETRY_WAIT_NON_429

\* C17: in a direct call of fetch_job_details, which starts with an empty
\* identity pool, the pool has been replenished by the time the request of
\* the final attempt (attempt index MAX_ATTEMPTS-1, after failed attempts)
\* is in progress.
C17_PoolReplenishedBeforeFinalAttempt ==
    (entry = "fetch_job_details" /\ dpc = "wait"
       /\ attempts > 0 /\ attempts = Config.MAX_ATTEMPTS - 1) =>
        Len(HEADERS_LIST) > 0

\* C18: fetch_job_details never starts more than MAX_ATTEMPTS tries (each at
\* most max_retries requests); it has returned a record only after a try that
\* succeeded, before the tries were used up, and the empty result only after
\* MAX_ATTEMPTS failed tries; once it has returned nothing more is tried.
C18_AtMostMaxAttempts ==
    /\ [](dpc # "idle" =>
            /\ attempts <= Config.MAX_ATTEMPTS
            /\ detailRequests <= max_retries * Config.MAX_ATTEMPTS
            /\ dpc = "wait" => attempts < Config.MAX_ATTEMPTS
            /\ dpc = "returned" =>
                 IF job_detail = <<>>
                 THEN attempts = Config.MAX_ATTEMPTS
                 ELSE attempts < Config.MAX_ATTEMPTS /\ 200 \in detailAnswers)
    /\ [][ (dpc = "returned" /\ dpc' = "returned") =>
              UNCHANGED <<attempts, detailRequests, job_detail>> ]_vars

\* Two tries of three requests each failed and the empty result came back.
C18_Witness ==
    /\ mpc = "done" /\ dpc = "returned" /\ job_detail = <<>>
    /\ Config.MAX_ATTEMPTS = 2 /\ attempts = 2 /\ detailRequests = 6

\* The selector list of a field.
FieldSelectors(key) ==
    IF key = "description_content" THEN description_selectors ELSE selectors[key]

TextFields ==
    {"company_name", "job_title", "time_posted", "num_applicants", "job_location",
     "description_content"}

RECURSIVE FirstNonEmptyText(_, _)
\* The text of the first selector, in order, that yields non-empty text.
FirstNonEmptyText(detail, selector_list) ==
    IF selector_list = <<>> THEN "N/A"
    ELSE IF Head(selector_list) \in DOMAIN detail /\ detail[Head(selector_list)] # ""
    THEN detail[Head(selector_list)]
    ELSE FirstNonEmptyText(detail, Tail(selector_list))

\* fetch_job_details has a 200 response in hand and is about to parse it.
DetailFetched ==
    dpc = "wait" /\ caller = "detail" /\ rpc = "returned" /\ ret.status_code = 200

\* C19: each text field of the record built from a fetched detail page is the
\* text of the first selector, in priority order, that yields non-empty text,
\* and the sentinel when none does.
C19_FirstNonEmptySelector ==
    [][ DetailFetched =>
          /\ job_detail' # <<>>
          /\ \A key \in TextFields :
               job_detail'[1][key] = FirstNonEmptyText(ret.detail, FieldSelectors(key)) ]_vars

OutputKeys ==
    {"job_id", "job_url", "has_easy_apply", "application_type"} \cup TextFields
    \cup {"experience_needed"}

\* C20: a record returned by fetch_job_details has exactly the eleven keys,
\* its job_id is the candidate's, no text field is null, and a field for
\* which the page has no matching element holds 'N/A' (experience_needed
\* when the description does).
C20_RecordHasAllKeys ==
    /\ [](job_detail # <<>> =>
            /\ DOMAIN job_detail[1] = OutputKeys
            /\ job_detail[1].job_id = job_info.job_id
            /\ job_detail[1].has_easy_apply \in BOOLEAN
            /\ \A key \in TextFields \cup {"experience_needed", "application_type", "job_url"} :
                 job_detail[1][key] # None
            /\ job_detail[1].description_content = "N/A" =>
                 job_detail[1].experience_needed = "N/A")
    /\ [][ DetailFetched =>
             /\ job_detail' # <<>>
             /\ \A key \in TextFields :
                  (\A i \in 1..Len(FieldSelectors(key)) :
                       FieldSelectors(key)[i] \notin DOMAIN ret.detail)
                    => job_detail'[1][key] = "N/A" ]_vars

\* A page with fallback selectors only: a title, and no location.
C20_Witness ==
    /\ dpc = "returned" /\ job_detail # <<>>
    /\ job_detail[1].job_title = "Engineer"
    /\ job_detail[1].job_location = "N/A"
    /\ job_detail[1].experience_needed = "N/A"

IsPrefix(a, b) == Len(a) <= Len(b) /\ SubSeq(b, 1, Len(a)) = a

\* An orchestrator is inside its loops.
InRun == handler # "none" /\ mpc \notin {"init", "serving", "done", "exit1", "error500"}

\* C21: a query whose pagination stopped on a failed request, or a job whose
\* detail fetch returned the empty result, does not end the run: the
\* orchestrator goes on with the same lists, leaves its loops only when they
\* are exhausted, never exits, and the records collected stay in place.
C21_FailuresContained ==
    [][ /\ InRun => (mpc' # "exit1" /\ IsPrefix(all_job_data, all_job_data'))
        /\ (InRun /\ mpc = "detail" /\ dpc = "returned" /\ job_detail = <<>>) =>
              /\ mpc' = "for_job"
              /\ all_job_data' = all_job_data
              /\ <<qi, ji, job_info_list>>' = <<qi, ji, job_info_list>>
        /\ (InRun /\ mpc = "paginate" /\ ppc = "returned" /\ breakStatus \notin {0, 200}) =>
              /\ mpc' = "for_job"
              /\ all_job_data' = all_job_data
              /\ qi' = qi
        /\ (InRun /\ mpc = "for_job" /\ mpc' # "for_job") =>
              (ji = Len(job_info_list) \/ mpc' = "detail")
        /\ (InRun /\ mpc = "for_search" /\ mpc' \in {"done", "serving"}) =>
              qi = Len(search_urls) ]_vars

\* The only candidate of the first query failed its detail fetch; the second
\* query was processed and its record is there at the end.
C21_Witness ==
    /\ mpc = "done" /\ Len(overall_monitoring) = 2
    /\ overall_monitoring[1].jobs_found = 1
    /\ overall_monitoring[1].unique_jobs = 0
    /\ Len(all_job_data) = 1

\* C22: in main() the list handed over by the paginator is taken whole, the
\* jobs_found of a query is the length of that list, and the reported total
\* of unique jobs is the number of distinct ids among the collected records.
C22_FoundAndUniqueCounts ==
    /\ [][ /\ (handler = "main" /\ mpc = "paginate" /\ ppc = "returned") =>
                 job_info_list' = all_jobs
           /\ (handler = "main" /\ mpc = "for_job" /\ mpc' = "for_search") =>
                 /\ Len(overall_monitoring') = Len(overall_monitoring) + 1
                 /\ overall_monitoring'[Len(overall_monitoring')].jobs_found
                      = Len(job_info_list)
                 /\ IsPrefix(overall_monitoring, overall_monitoring') ]_vars
    /\ []((mpc = "done" /\ all_job_data # <<>>) =>
             total_unique = Cardinality(CollectedIds))

\* Two queries surfaced the same single job.
C22_Witness ==
    /\ mpc = "done" /\ Len(overall_monitoring) = 2
    /\ overall_monitoring[1].jobs_found = 1 /\ overall_monitoring[2].jobs_found = 1
    /\ Len(all_job_data) = 2 /\ all_job_data[1].job_id = all_job_data[2].job_id
    /\ total_unique = 1

\* C23: while the detail fetch of a forwarded candidate is in progress its id
\* is already in the seen set: the insertion came with the membership check,
\* not after the fetch.
C23_CheckAndInsertTogether ==
    (handler # "none" /\ dpc # "idle") => job_info.job_id \in unique_jobs

\* C24: when a listing or detail request is about to be issued after an
\* earlier one of the same orchestrator run, a delay has been slept since the
\* previous outbound request.
C24_RequestsPaced ==
    (rpc = "loop" /\ handler # "none"
       /\ (caller = "detail" \/ qi >= 2 \/ pagesRequested # <<>> \/ attempt > 0))
        => paced

\* C25: a call of make_authenticated_request makes at most max_retries
\* attempts, it does return, and what it returns is a response of status 200
\* or None.
C25_RequestReturns ==
    /\ [](/\ attempt <= max_retries
          /\ (rpc = "loop" => attempt < max_retries)
          /\ (rpc = "returned" => (ret = NoneResp \/ ret.status_code = 200)))
    /\ (rpc = "loop" ~> rpc = "returned")

\* Three attempts failed and the call returned None.
C25_Witness ==
    /\ entry = "make_authenticated_request"
    /\ rpc = "returned" /\ attempt = max_retries /\ ret = NoneResp

\* C26: with LINKEDIN_LI_AT unset, login() makes no request to /feed/: the
\* cookie attempt changes nothing and hands over to the credential attempt.
C26_NoCookieNoFeedRequest ==
    /\ []("li_at" \notin env.cookies =>
             \A i \in 1..Len(authLog) : authLog[i].req # "GET /feed/")
    /\ [][(lpc = "cookies" /\ "li_at" \notin env.cookies) =>
             /\ lpc' = "credentials"
             /\ <<authLog, session_cookies, is_authenticated, loginResult>>'
                  = <<authLog, session_cookies, is_authenticated, loginResult>>]_vars

\* No li_at cookie, and the first request of login() was the login page.
C26_Witness ==
    /\ "li_at" \notin env.cookies
    /\ authLog # <<>> /\ authLog[1].req = "GET /login"

\* C27: a credential POST comes right after the fetch of the login page,
\* and it carries a token, the one taken from that page.
C27_SubmitOnlyWithToken ==
    \A i \in 1..Len(authLog) :
        authLog[i].req = "POST /checkpoint/lg/login-submit" =>
            /\ i > 1
            /\ authLog[i - 1].req = "GET /login"
            /\ authLog[i].csrf # None
            /\ authLog[i].csrf = csrf_token

\* The loader refuses the file.
Refused ==
    \/ ~config_data.exists
    \/ ~config_data.valid
    \/ ~(required_keys \subseteq DOMAIN config_data.data)

\* C28: load_config_from_json exits with status 1 on a missing file, on a
\* file that is not JSON and on an object lacking a required key, and then no
\* Config attribute has changed; on any other file each of the 14 attributes
\* holds the file's value.
C28_ConfigAllOrNothing ==
    /\ [][(entry = "load_config_from_json" /\ mpc = "start") =>
             IF Refused
             THEN mpc' = "exit1" /\ Config' = Config
             ELSE /\ mpc' = "loaded"
                  /\ \A k \in required_keys : Config'[k] = config_data.data[k]]_vars
    /\ []((entry = "load_config_from_json" /\ mpc = "exit1") =>
             Config = ConfigDefaults)

\* A JSON object lacking exactly one required key was refused.
C28_Witness ==
    /\ entry = "load_config_from_json" /\ mpc = "exit1"
    /\ config_data.exists /\ config_data.valid
    /\ Cardinality(required_keys \ DOMAIN config_data.data) = 1

\* C29: a step never removes or moves an identity of the pool, and a call
\* add_random_headers(n) leaves the pool longer by exactly n.
C29_PoolOnlyGrows ==
    [][ /\ IsPrefix(HEADERS_LIST, HEADERS_LIST')
        /\ (entry = "header_pool" /\ mpc' = "added") =>
              Len(HEADERS_LIST') = Len(HEADERS_LIST) + count' ]_vars

\* Two identities were added to a pool that held one.
C29_Witness ==
    /\ entry = "header_pool" /\ mpc = "added"
    /\ count = 2 /\ Len(HEADERS_LIST) = 3

\* C30: a fetched page adds the candidates of the data-entity-urn elements
\* when these yield any, and those of the anchor links otherwise.
C30_FirstYieldingShape ==
    [][(ppc = "wait" /\ rpc = "returned" /\ caller = "page"
          /\ ~Falsy(ret) /\ ret.status_code = 200) =>
         all_jobs' = all_jobs \o
                       (IF CardJobs(ret.listing.job_cards) # <<>>
                        THEN CardJobs(ret.listing.job_cards)
                        ELSE LinkJobs(ret.listing.job_links))]_vars

\* C31: an attempt of make_authenticated_request that raised is followed by
\* a sleep of 5 to 10 seconds when another attempt comes, and by no sleep
\* and the return of None when it was the last one.
C31_NetworkFailureWait ==
    [][(rpc = "loop" /\ lastStatus' = RaisedResp.status_code) =>
          IF attempt < max_retries - 1
          THEN /\ lastWait' \in 5..10 /\ paced'
               /\ rpc' = "loop" /\ attempt' = attempt + 1
          ELSE /\ lastWait' = 0 /\ ~paced'
               /\ rpc' = "returned" /\ ret' = NoneResp]_vars

\* The last attempt raised: None is returned and nothing was slept after it.
C31_Witness ==
    /\ rpc = "returned" /\ attempt = max_retries
    /\ lastStatus = RaisedResp.status_code /\ lastWait = 0 /\ ~paced

\* C32: every seen id has a record; the seen set changes only by the id of a
\* non-empty detail result whose record is appended in the same step; an
\* empty result, and a result the custom endpoint filters out, leave the
\* seen set and the records as they were; a search's unique count is at most
\* its jobs_found.
C32_SeenOnlyWithRecord ==
    /\ [](unique_jobs \subseteq CollectedIds)
    /\ [](\A i \in 1..Len(overall_monitoring) :
             overall_monitoring[i].unique_jobs <= overall_monitoring[i].jobs_found)
    /\ [][ /\ (InRun /\ ~(unique_jobs' \subseteq unique_jobs)) =>
                /\ mpc = "detail" /\ dpc = "returned" /\ job_detail # <<>>
                /\ unique_jobs' = unique_jobs \cup {job_info.job_id}
                /\ all_job_data' = Append(all_job_data, job_detail[1])
                /\ job_detail[1].job_id = job_info.job_id
           /\ (InRun /\ mpc = "detail" /\ dpc = "returned"
                 /\ (\/ job_detail = <<>>
                     \/ (handler = "custom" /\ request.filter_easy_apply
                           /\ ~job_detail[1].has_easy_apply))) =>
                /\ unique_jobs' = unique_jobs
                /\ all_job_data' = all_job_data ]_vars

\* The custom endpoint, filtering, got the record of a job that is not Easy
\* Apply while another job is already seen.
C32_Witness ==
    /\ handler = "custom" /\ request.filter_easy_apply
    /\ mpc = "detail" /\ dpc = "returned"
    /\ job_detail # <<>> /\ ~job_detail[1].has_easy_apply
    /\ unique_jobs # {}

\* The positions at which a keyword of the list occurs first in the text.
KeywordPositions(text) ==
    {Find(text, experience_keywords[k]) : k \in 1..Len(experience_keywords)} \ {-1}

\* The window around the earliest position at which any keyword occurs.
EarliestKeywordWindow(description_content) ==
    LET positions == KeywordPositions(Lower(description_content))
    IN  IF description_content = "N/A" \/ positions = {} THEN "N/A"
        ELSE LET first == CHOOSE p \in positions : \A q \in positions : p <= q
             IN  Strip(SubSeq(description_content, Max(0, first - 50) + 1,
                              Min(Len(description_content), first + 150)))
                 \o "..."

\* C33: experience_needed of a returned job is 'N/A' for a description that
\* is 'N/A' or holds no keyword, and otherwise the window (50 characters
\* before, 150 from the start) around the earliest position at which any
\* keyword occurs, followed by '...'.
C33_WindowAtEarliestKeyword ==
    (dpc = "returned" /\ job_detail # <<>>) =>
        job_detail[1].experience_needed
            = EarliestKeywordWindow(job_detail[1].description_content)

\* C34: what make_authenticated_request hands to its caller is None or a
\* response of status 200, also when the server answered 429 or 404: the
\* paginator and fetch_job_details never hold a response of another status.
C34_CallersSeeNoneOr200 ==
    /\ (ret # NoneResp => (rpc = "returned" /\ ret.status_code = 200))
    /\ (rpc = "returned" /\ lastStatus # 200 => ret = NoneResp)

\* The detail request was answered 404 three times: the caller gets None.
C34_Witness ==
    /\ caller = "detail" /\ rpc = "returned" /\ attempt = max_retries
    /\ detailAnswers = {404} /\ ret = NoneResp

\* How often the current call of fetch_job_ids_from_url requested page p.
TimesRequested(p) ==
    Cardinality({i \in 1..Len(pagesRequested) : pagesRequested[i] = p})

\* C35: main(), once authenticated, reaches its summary whatever the server
\* answers, 429 on every request included; within one search no page is
\* requested more than max_retries times, and one candidate's detail page
\* no more than max_retries * MAX_ATTEMPTS times.
C35_MainTerminates ==
    /\ [](\A p \in Range(pagesRequested) : TimesRequested(p) <= max_retries)
    /\ [](detailRequests <= max_retries * Config.MAX_ATTEMPTS)
    /\ ((entry = "main" /\ mpc = "init") ~> (mpc = "done"))

\* main() had 429 three times for the first page of a search.
C35_Witness ==
    /\ entry = "main" /\ handler = "main"
    /\ caller = "page" /\ rpc = "returned" /\ lastStatus = 429
    /\ pagesRequested = <<0, 0, 0>>

\* C36: a response that ended on a login URL, without session cookie and
\* without authenticated page element, is not taken as authenticated by
\* verify_authentication, whatever the query string of that URL.
C36_LoginUrlNotVerified ==
    (/\ Len(response.url.path) >= 1 /\ response.url.path[1] = "login"
     /\ response.cookies = {}
     /\ \A i \in 1..Len(nav_indicators) : Select(response.elements, nav_indicators[i]) = {})
        => (~verified /\ (lpc = "returned" => loginResult # "True"))

\* C37: when scrape_jobs_custom is over, by its return or by an error,
\* Config.MAX_PAGES_PER_SEARCH is what it was before the request.
C37_MaxPagesRestored ==
    [][(handler = "custom" /\ mpc = "for_search" /\ mpc' \in {"serving", "error500"}) =>
          Config'.MAX_PAGES_PER_SEARCH = original_max_pages]_vars

\* C38: in the summary of main() the Easy Apply and the other jobs add up to
\* the total of unique jobs, and neither count is negative.
C38_SummaryCountsAddUp ==
    (handler = "main" /\ mpc = "done" /\ all_job_data # <<>>) =>
        /\ easy_apply_count + non_easy_apply_count = total_unique
        /\ easy_apply_count >= 0
        /\ non_easy_apply_count >= 0

=============================================================================
